---- MODULE Spec2Model ----
(***************************************************************************)
(* Model of `sii pdf create` (src/src/sii/bin/cmd_pdf.py): handle_create,  *)
(* the supervisor that feeds the job queue, spawns the worker threads and  *)
(* drains the result queue, and _handle_create_worker, the worker loop     *)
(* with its per-job pipeline and output routing.                           *)
(*                                                                         *)
(* Python strings are sequences of one-character strings, so that          *)
(* basename/dirname/split/join/int/format are computed as the code does.   *)
(***************************************************************************)
EXTENDS Integers, Sequences, FiniteSets, Bags, TLC

\* ------------------------------------------------------------------ bounds
\* Largest number of input documents of a run.
MaxJobs == 2
\* Largest value given to --jobs.
MaxJobsOpt == 2
\* mp.cpu_count() of the machine the run is on.
CpuCount == 2
\* Largest number of errors the printing backend and the filesystem raise
\* in a run.
MaxFaults == 1

\* ------------------------------------------------------- program constants
\* TipoDTE of a "Nota de Debito" and of a "Nota de Credito" (line 165).
NotaDebito == 56
NotaCredito == 61

\* ---------------------------------------------------------------- strings
Digits == <<"0", "1", "2", "3", "4", "5", "6", "7", "8", "9">>

IsDigit(c) == \E i \in 1..10 : Digits[i] = c

DigitVal(c) == (CHOOSE i \in 1..10 : Digits[i] = c) - 1

\* "{0}".format(n) for an int n >= 0
RECURSIVE IntToStr(_)
IntToStr(n) ==
    IF n < 10 THEN <<Digits[n + 1]>>
    ELSE IntToStr(n \div 10) \o <<Digits[(n % 10) + 1]>>

\* int(s) raises ValueError unless s is a non-empty string of digits
IntParses(s) == Len(s) > 0 /\ \A i \in 1..Len(s) : IsDigit(s[i])

RECURSIVE StrToInt(_)
StrToInt(s) ==
    IF Len(s) = 0 THEN 0
    ELSE 10 * StrToInt(SubSeq(s, 1, Len(s) - 1)) + DigitVal(s[Len(s)])

\* positions of the character c in s
Positions(s, c) == {i \in 1..Len(s) : s[i] = c}

Max(S) == CHOOSE x \in S : \A y \in S : y <= x
Min(S) == CHOOSE x \in S : \A y \in S : x <= y

\* s.split(c)[0]: the part of s before the first c, all of s without a c
SplitFirst(s, c) ==
    IF Positions(s, c) = {} THEN s
    ELSE SubSeq(s, 1, Min(Positions(s, c)) - 1)

\* os.path.basename(p): what follows the last "/"
basename(p) ==
    IF Positions(p, "/") = {} THEN p
    ELSE SubSeq(p, Max(Positions(p, "/")) + 1, Len(p))

\* length of s without its trailing "/"s
RECURSIVE RStripLen(_)
RStripLen(s) ==
    IF Len(s) > 0 /\ s[Len(s)] = "/" THEN RStripLen(SubSeq(s, 1, Len(s) - 1))
    ELSE Len(s)

\* os.path.dirname(p): what precedes the last "/", without trailing "/"s
\* unless it is made of "/"s only
dirname(p) ==
    IF Positions(p, "/") = {} THEN << >>
    ELSE LET head == SubSeq(p, 1, Max(Positions(p, "/")))
         IN  IF RStripLen(head) = 0 THEN head
             ELSE SubSeq(head, 1, RStripLen(head))

\* os.path.join(a, b)
join(a, b) ==
    IF Len(b) > 0 /\ b[1] = "/" THEN b
    ELSE IF Len(a) = 0 \/ a[Len(a)] = "/" THEN a \o b
    ELSE a \o <<"/">> \o b

Str_cedible == <<"_", "c", "e", "d", "i", "b", "l", "e">>
Str_pdf == <<".", "p", "d", "f">>
Str_stdin == <<"s", "t", "d", "i", "n">>

\* ------------------------------------------------------------------ inputs
\* The queue's "finish" sentinel and the "on my way out" mark of an event.
None == [none |-> TRUE]

\* Values of --medium: a known one and an unknown one.
Mediums == {"carta", "a4"}

\* Input paths "a.x", "d/a.x" and "b.x"; <outfile> absent or "o/t".
PathList == << <<"a", ".", "x">>, <<"d", "/", "a", ".", "x">>,
               <<"b", ".", "x">> >>
Outfiles == {<< >>, <<"o", "/", "t">>}

\* Document payloads: what xml.load_xml and the three field reads give.
\* wellformed = FALSE is a payload xml.load_xml (or a field read) raises on.
Docs ==
    { [wellformed |-> TRUE, TipoDTE |-> 33, Folio |-> 1,
       RUTEmisor |-> <<"7", "-", "k">>],
      [wellformed |-> TRUE, TipoDTE |-> NotaDebito, Folio |-> 2,
       RUTEmisor |-> <<"7", "-", "k">>],
      [wellformed |-> TRUE, TipoDTE |-> NotaCredito, Folio |-> 2,
       RUTEmisor |-> <<"8", "-", "1">>],
      [wellformed |-> FALSE, TipoDTE |-> 0, Folio |-> 0, RUTEmisor |-> << >>] }

\* Values of --jobs: absent, "0" (one less than the CPUs), or MaxJobsOpt.
JobsOpts == {<< >>, IntToStr(0), IntToStr(MaxJobsOpt)}

\* Sequences over S of length at most n
SeqsUpTo(S, n) == UNION {[1..k -> S] : k \in 0..n}

\* Values of <infile>...: none, or "a.x" followed by other paths of PathList,
\* in the list's order
Infiles ==
    { [i \in 1..Len(ix) |-> PathList[ix[i]]] :
        ix \in { jx \in SeqsUpTo(1..Len(PathList), MaxJobs) :
                    /\ Len(jx) > 0 => jx[1] = 1
                    /\ \A i, j \in 1..Len(jx) : i < j => jx[i] < jx[j] } }

\* Runs are observed with --verbose: a run without it prints the same lines
\* but the "Generated" ones.
\* What docopt can hand to handle_create for the two `create` usage lines:
\*   create tex [<outfile>] [-]
\*   create pdf [--suffixed | --generate | <outfile>] ([-] | <infile>...)
ValidArgs(a) ==
    /\ a.tex # a.pdf
    /\ a.tex => (~a.suffixed /\ ~a.generate /\ a.infile = << >>)
    /\ ~(a.suffixed /\ a.generate)
    /\ (a.suffixed \/ a.generate) => a.outfile = << >>

ArgsSet ==
    { a \in [debug : BOOLEAN, verbose : {TRUE}, cedible : BOOLEAN,
             medium : Mediums, jobs : JobsOpts, tex : BOOLEAN, pdf : BOOLEAN,
             suffixed : BOOLEAN, generate : BOOLEAN, outfile : Outfiles,
             infile : Infiles] : ValidArgs(a) }

\* ------------------------------------------------------------------- state
VARIABLES
    args,          \* the docopt dictionary
    input,         \* payloads: of the <infile>s in order, else the stdin lines
    cpu_count,     \* what mp.cpu_count() returns on this machine
    spc,           \* where handle_create is
    sources,       \* handle_create's list of (pth, buff)
    worker_count,
    q_in,          \* queue.Queue of jobs and sentinels
    q_out,         \* queue.Queue of worker events
    workers,       \* keys of the dict of outstanding worker threads
    wpc,           \* where each worker thread is
    job,           \* each worker's current job
    exc,           \* each worker's caught exception
    calls,         \* calls made to the printing backend
    files,         \* writes made to the filesystem
    stdout,        \* what was printed on standard output
    stderr,        \* what was printed on standard error
    put_log,       \* bag of the events ever put on q_out
    get_log,       \* bag of the <<pid, item>> ever taken from q_in
    faults         \* errors the backend and the filesystem raised so far

vars == <<args, input, cpu_count, spc, sources, worker_count, q_in, q_out,
          workers, wpc, job, exc, calls, files, stdout, stderr, put_log,
          get_log, faults>>

inVars == <<args, input, cpu_count>>
supVars == <<spc, sources, worker_count, workers>>
effVars == <<calls, files, stdout, faults>>

Init ==
    /\ args \in ArgsSet
    /\ input \in SeqsUpTo(Docs, MaxJobs)
    /\ args.infile # << >> => Len(input) = Len(args.infile)
    /\ cpu_count = CpuCount
    /\ spc = "read"
    /\ sources = << >>
    /\ worker_count = 0
    /\ q_in = << >>
    /\ q_out = << >>
    /\ workers = {}
    /\ wpc = << >>
    /\ job = << >>
    /\ exc = << >>
    /\ calls = {}
    /\ files = {}
    /\ stdout = {}
    /\ stderr = {}
    /\ put_log = EmptyBag
    /\ get_log = EmptyBag
    /\ faults = 0

\* ------------------------------------------------------------- queue.Queue
\* q.get() on a non-empty queue: the item returned, and the queue left
queue_get(q) == Head(q)
\* (mutant) a get that leaves the item in the queue
queue_rest_Peek(q) == q
queue_rest(q) == Tail(q)
\* (mutant) a put at the head of the queue
queue_put_Front(q, item) == <<item>> \o q
\* q.put(item)
queue_put(q, item) == Append(q, item)

\* ------------------------------------------------------------ handle_create
\* (mutant) without the check of lines 91-92
ReadSources_NoSuffixCheck ==
    /\ spc = "read"
    /\ sources' = IF args.infile # << >>
                  THEN [i \in 1..Len(args.infile) |->
                            [pth |-> args.infile[i], bytebuff |-> input[i]]]
                  ELSE [i \in 1..Len(input) |->
                            [pth |-> Str_stdin, bytebuff |-> input[i]]]
    /\ spc' = "feed"
    /\ UNCHANGED <<inVars, worker_count, q_in, q_out, workers, wpc, job,
                   exc, effVars, stderr, put_log, get_log>>
\* lines 81-92: read the sources; --suffixed with stdin input exits
ReadSources ==
    /\ spc = "read"
    /\ sources' = IF args.infile # << >>
                  THEN [i \in 1..Len(args.infile) |->
                            [pth |-> args.infile[i], bytebuff |-> input[i]]]
                  ELSE [i \in 1..Len(input) |->
                            [pth |-> Str_stdin, bytebuff |-> input[i]]]
    /\ spc' = IF args.infile = << >> /\ args.suffixed THEN "exit" ELSE "feed"
    /\ UNCHANGED <<inVars, worker_count, q_in, q_out, workers, wpc, job,
                   exc, effVars, stderr, put_log, get_log>>

\* (mutant) `cpu_count() - 1` without its `or 1`
WorkerCount_NoFloor(jobs, cpus) ==
    IF jobs # << >>
    THEN IF StrToInt(jobs) > 0 THEN StrToInt(jobs) ELSE cpus - 1
    ELSE 1
\* lines 100-103: int(jobs) if int(jobs) > 0 else cpu_count() - 1 or 1
WorkerCount(jobs, cpus) ==
    IF jobs # << >>
    THEN IF StrToInt(jobs) > 0 THEN StrToInt(jobs)
         ELSE IF cpus - 1 # 0 THEN cpus - 1 ELSE 1
    ELSE 1

\* (mutant) the sentinels put before the jobs
FeedQueue_SentinelsFirst(srcs, n) ==
    [i \in 1..n |-> None]
        \o [i \in 1..Len(srcs) |-> [source |-> srcs[i], jid |-> i]]
\* (mutant) the jobs put in the reverse of the input order
FeedQueue_Reversed(srcs, n) ==
    [i \in 1..Len(srcs) |-> [source |-> srcs[Len(srcs) + 1 - i],
                             jid |-> Len(srcs) + 1 - i]]
        \o [i \in 1..n |-> None]
\* (mutant) sequence ids as enumerate gives them, from 0
FeedQueue_IdsFromZero(srcs, n) ==
    [i \in 1..Len(srcs) |-> [source |-> srcs[i], jid |-> i - 1]]
        \o [i \in 1..n |-> None]
\* lines 109-113: the jobs in order, then one sentinel per worker
FeedQueue(srcs, n) ==
    [i \in 1..Len(srcs) |-> [source |-> srcs[i], jid |-> i]]
        \o [i \in 1..n |-> None]

\* lines 94-120: worker count, the two queues, the queue's feed, the threads
Feed ==
    /\ spc = "feed"
    /\ worker_count' = WorkerCount(args.jobs, cpu_count)
    /\ q_in' = FeedQueue(sources, worker_count')
    /\ q_out' = << >>
    /\ workers' = 0..(worker_count' - 1)
    /\ wpc' = [pid \in 0..(worker_count' - 1) |-> "new"]
    /\ job' = [pid \in 0..(worker_count' - 1) |-> None]
    /\ exc' = [pid \in 0..(worker_count' - 1) |-> "none"]
    /\ spc' = "start"
    /\ UNCHANGED <<inVars, sources, effVars, stderr, put_log, get_log>>

\* lines 121-125: start the threads in the dict's order
Start(pid) ==
    /\ spc = "start"
    /\ pid \in DOMAIN wpc
    /\ wpc[pid] = "new"
    /\ \A p \in DOMAIN wpc : p < pid => wpc[p] # "new"
    /\ stderr' = IF args.debug
                 THEN stderr \cup {[kind |-> "spawning", pid |-> pid]}
                 ELSE stderr
    /\ wpc' = [wpc EXCEPT ![pid] = "get"]
    /\ spc' = IF pid = worker_count - 1 THEN "drain" ELSE "start"
    /\ UNCHANGED <<inVars, sources, worker_count, q_in, q_out, workers,
                   job, exc, effVars, put_log, get_log>>

\* (mutant) every event is taken for a worker on its way out
IsWorkerDone_AnyEvent(ev) == ev.event = ev.event
\* an event is (pid, None) or (pid, jid, exc): line 131
IsWorkerDone(ev) == ev.event = None

\* (mutant) a Failure event too takes its worker out of the dict
Drain_FailurePops ==
    /\ spc = "drain"
    /\ workers # {}
    /\ q_out # << >>
    /\ LET ev == queue_get(q_out) IN
         /\ q_out' = queue_rest(q_out)
         /\ IF IsWorkerDone(ev) /\ ev.pid \notin workers
            THEN /\ spc' = "raised"
                 /\ UNCHANGED <<workers, stderr>>
            ELSE /\ IsWorkerDone(ev) => wpc[ev.pid] = "done"
                 /\ workers' = workers \ {ev.pid}
                 /\ stderr' = stderr
                 /\ spc' = IF workers' = {} THEN "returned" ELSE "drain"
    /\ UNCHANGED <<inVars, sources, worker_count, q_in, wpc, job, exc,
                   effVars, put_log, get_log>>
\* lines 128-141: one turn of the loop that waits for the workers
Drain ==
    /\ spc = "drain"
    /\ workers # {}
    /\ q_out # << >>
    /\ LET ev == queue_get(q_out) IN
         /\ q_out' = queue_rest(q_out)
         /\ IF IsWorkerDone(ev) /\ ev.pid \notin workers
            THEN /\ spc' = "raised"          \* workers.pop(pid): KeyError
                 /\ UNCHANGED <<workers, stderr>>
            ELSE IF IsWorkerDone(ev)
            THEN /\ wpc[ev.pid] = "done"     \* worker.join() returns
                 /\ workers' = workers \ {ev.pid}
                 /\ stderr' = IF args.debug
                              THEN stderr \cup {[kind |-> "releasing",
                                                 pid |-> ev.pid]}
                              ELSE stderr
                 /\ spc' = IF workers' = {} THEN "returned" ELSE "drain"
            ELSE /\ workers' = workers
                 /\ stderr' = IF args.debug
                              THEN stderr \cup {[kind |-> "error",
                                                 pid |-> ev.pid,
                                                 jid |-> ev.event.jid,
                                                 exc |-> ev.event.exc]}
                              ELSE stderr
                 /\ spc' = "drain"
    /\ UNCHANGED <<inVars, sources, worker_count, q_in, wpc, job, exc,
                   effVars, put_log, get_log>>

\* ---------------------------------------------------- _handle_create_worker
\* (mutant) without `if job is None: break` the sentinel is unpacked as a
\* job, which raises outside the try block and ends the thread
Get_NoSentinelCheck(pid) ==
    /\ pid \in DOMAIN wpc
    /\ wpc[pid] = "get"
    /\ q_in # << >>
    /\ q_in' = queue_rest(q_in)
    /\ get_log' = get_log (+) SetToBag({<<pid, queue_get(q_in)>>})
    /\ IF queue_get(q_in) = None
       THEN /\ wpc' = [wpc EXCEPT ![pid] = "dead"]
            /\ job' = job
       ELSE /\ wpc' = [wpc EXCEPT ![pid] = "load"]
            /\ job' = [job EXCEPT ![pid] = queue_get(q_in)]
    /\ UNCHANGED <<inVars, supVars, q_out, exc, effVars, stderr, put_log>>
\* lines 145-155: q_in.get(); a sentinel breaks the loop, a job is unpacked
Get(pid) ==
    /\ pid \in DOMAIN wpc
    /\ wpc[pid] = "get"
    /\ q_in # << >>
    /\ q_in' = queue_rest(q_in)
    /\ get_log' = get_log (+) SetToBag({<<pid, queue_get(q_in)>>})
    /\ IF queue_get(q_in) = None
       THEN /\ wpc' = [wpc EXCEPT ![pid] = "out"]
            /\ job' = job
       ELSE /\ wpc' = [wpc EXCEPT ![pid] = "load"]
            /\ job' = [job EXCEPT ![pid] = queue_get(q_in)]
    /\ UNCHANGED <<inVars, supVars, q_out, exc, effVars, stderr, put_log>>

\* line 224, `except Exception`: SystemExit is a BaseException and no
\* Exception; what the parser, the backend and the filesystem raise are
Caught(e) == e # "SystemExit"

\* where a raise inside the try block of lines 157-222 takes the thread: to
\* the handler of line 224, or out of the thread's function
Raised(e) == IF Caught(e) THEN "except" ELSE "dead"

\* lines 158-163: xml.load_xml, xml.dump_etree and the three int() reads
Loads(doc) ==
    /\ doc.wellformed
    /\ IntParses(SplitFirst(doc.RUTEmisor, "-"))

dte_type(doc) == doc.TipoDTE
dte_id(doc) == doc.Folio
dte_rut(doc) == StrToInt(SplitFirst(doc.RUTEmisor, "-"))

Load(pid) ==
    /\ pid \in DOMAIN wpc
    /\ wpc[pid] = "load"
    /\ IF Loads(job[pid].source.bytebuff)
       THEN /\ wpc' = [wpc EXCEPT ![pid] = "check"]
            /\ exc' = exc
       ELSE /\ wpc' = [wpc EXCEPT ![pid] = Raised("ParseError")]
            /\ exc' = [exc EXCEPT ![pid] = "ParseError"]
    /\ UNCHANGED <<inVars, supVars, q_in, q_out, job, effVars, stderr,
                   put_log, get_log>>

\* line 165: --cedible on a Nota de Debito or a Nota de Credito
\* (mutant) the check forgets the Nota de Credito
CedibleRejected_OnlyND(a, doc) ==
    a.cedible /\ doc.TipoDTE = NotaDebito
CedibleRejected(a, doc) ==
    a.cedible /\ dte_type(doc) \in {NotaDebito, NotaCredito}

\* line 168: a medium there is no template for
MediumRejected(a) ==
    a.medium \notin {"carta", "oficio", "thermal80mm"}

\* lines 165-169: both checks raise SystemExit; the handler of line 224 does
\* not catch it and the thread ends there (threading ignores a SystemExit)
Check(pid) ==
    /\ pid \in DOMAIN wpc
    /\ wpc[pid] = "check"
    /\ IF CedibleRejected(args, job[pid].source.bytebuff) \/ MediumRejected(args)
       THEN /\ wpc' = [wpc EXCEPT ![pid] = Raised("SystemExit")]
            /\ exc' = [exc EXCEPT ![pid] = "SystemExit"]
       ELSE /\ wpc' = [wpc EXCEPT ![pid] = "render"]
            /\ exc' = exc
    /\ UNCHANGED <<inVars, supVars, q_in, q_out, job, effVars, stderr,
                   put_log, get_log>>

\* len(args['<infile>']), the total of the "[jid/total]" log lines
Total(a) == Len(a.infile)

\* lines 171-183: printing.create_template, which may raise, then the
\* --verbose line
Render(pid) ==
    /\ pid \in DOMAIN wpc
    /\ wpc[pid] = "render"
    /\ calls' = calls \cup {[fn |-> "create_template", jid |-> job[pid].jid]}
    /\ \E ok \in BOOLEAN :
         IF ok
         THEN /\ wpc' = [wpc EXCEPT ![pid] = "write"]
              /\ exc' = exc
              /\ faults' = faults
              /\ stderr' = IF args.verbose
                           THEN stderr \cup {[kind |-> "generated",
                                              jid |-> job[pid].jid,
                                              total |-> Total(args),
                                              cedible |-> args.cedible,
                                              pth |-> job[pid].source.pth]}
                           ELSE stderr
         ELSE /\ faults < MaxFaults
              /\ faults' = faults + 1
              /\ wpc' = [wpc EXCEPT ![pid] = Raised("RenderError")]
              /\ exc' = [exc EXCEPT ![pid] = "RenderError"]
              /\ stderr' = stderr
    /\ UNCHANGED <<inVars, supVars, q_in, q_out, job, files, stdout,
                   put_log, get_log>>

\* file names of the resources printing.create_template returns: "l"
Resources == << <<"l">> >>

\* lines 203-207
SuffixedPath(pth, cedible) ==
    SplitFirst(basename(pth), ".")
        \o (IF cedible THEN Str_cedible \o Str_pdf ELSE Str_pdf)

\* (mutant) the serial number before the document type
GeneratedPath_SerialFirst(rut, type, id, cedible) ==
    IntToStr(rut) \o <<"_">> \o IntToStr(id) \o <<"_">> \o IntToStr(type)
        \o (IF cedible THEN Str_cedible ELSE << >>) \o Str_pdf
\* line 212
GeneratedPath(rut, type, id, cedible) ==
    IntToStr(rut) \o <<"_">> \o IntToStr(type) \o <<"_">> \o IntToStr(id)
        \o (IF cedible THEN Str_cedible ELSE << >>) \o Str_pdf

\* (mutant) the pdf written to <outfile> is the backend's base64 text
WriteTargets_Undecoded(a, j) ==
    IF a.tex
    THEN IF a.outfile # << >>
         THEN <<[path |-> a.outfile, data |-> "template", jid |-> j.jid]>>
              \o [i \in 1..Len(Resources) |->
                     [path |-> join(dirname(a.outfile), Resources[i]),
                      data |-> "resource", jid |-> j.jid]]
         ELSE << >>
    ELSE IF a.suffixed
    THEN <<[path |-> SuffixedPath(j.source.pth, a.cedible),
            data |-> "output", jid |-> j.jid]>>
    ELSE IF a.generate
    THEN <<[path |-> GeneratedPath(dte_rut(j.source.bytebuff),
                                   dte_type(j.source.bytebuff),
                                   dte_id(j.source.bytebuff), a.cedible),
            data |-> "output", jid |-> j.jid]>>
    ELSE IF a.outfile # << >>
    THEN <<[path |-> a.outfile, data |-> "b64pdf", jid |-> j.jid]>>
    ELSE << >>
\* lines 185-218: the files the job opens for writing, in order; "output"
\* is base64.b64decode of what printing.tex_to_pdf returned (line 200)
WriteTargets(a, j) ==
    IF a.tex
    THEN IF a.outfile # << >>
         THEN <<[path |-> a.outfile, data |-> "template", jid |-> j.jid]>>
              \o [i \in 1..Len(Resources) |->
                     [path |-> join(dirname(a.outfile), Resources[i]),
                      data |-> "resource", jid |-> j.jid]]
         ELSE << >>
    ELSE IF a.pdf
    THEN IF a.suffixed
         THEN <<[path |-> SuffixedPath(j.source.pth, a.cedible),
                 data |-> "output", jid |-> j.jid]>>
         ELSE IF a.generate
         THEN <<[path |-> GeneratedPath(dte_rut(j.source.bytebuff),
                                        dte_type(j.source.bytebuff),
                                        dte_id(j.source.bytebuff), a.cedible),
                 data |-> "output", jid |-> j.jid]>>
         ELSE IF a.outfile # << >>
         THEN <<[path |-> a.outfile, data |-> "output", jid |-> j.jid]>>
         ELSE << >>
    ELSE << >>

\* line 220, print(obj) for a bytes object: the text written on standard
\* output is str(obj), which for bytes is its repr, b'...' with the bytes
\* escaped inside, and a newline
print_text(obj) == <<"b'", obj, "'", "\n">>

\* lines 219-220: print(output)
PrintsOutput(a) ==
    ~a.tex /\ a.pdf /\ ~a.suffixed /\ ~a.generate /\ a.outfile = << >>

\* lines 185-222: printing.tex_to_pdf (pdf only), which may raise, and the
\* writes, of which the first k succeed
Write(pid) ==
    /\ pid \in DOMAIN wpc
    /\ wpc[pid] = "write"
    /\ LET targets == WriteTargets(args, job[pid]) IN
       IF ~args.tex /\ ~args.pdf
       THEN /\ wpc' = [wpc EXCEPT ![pid] = Raised("RuntimeError")]
            /\ exc' = [exc EXCEPT ![pid] = "RuntimeError"]
            /\ UNCHANGED effVars
       ELSE \E converts \in BOOLEAN, k \in 0..Len(targets) :
            /\ ~converts => (args.pdf /\ ~args.tex /\ k = 0)
            /\ (~converts \/ k < Len(targets)) => faults < MaxFaults
            /\ faults' = IF ~converts \/ k < Len(targets)
                         THEN faults + 1 ELSE faults
            /\ calls' = IF args.tex THEN calls
                        ELSE calls \cup {[fn |-> "tex_to_pdf",
                                          jid |-> job[pid].jid]}
            /\ files' = files \cup {targets[i] : i \in 1..k}
            /\ IF ~converts
               THEN /\ wpc' = [wpc EXCEPT ![pid] = Raised("RenderError")]
                    /\ exc' = [exc EXCEPT ![pid] = "RenderError"]
                    /\ stdout' = stdout
               ELSE IF k < Len(targets)
               THEN /\ wpc' = [wpc EXCEPT ![pid] = Raised("IOError")]
                    /\ exc' = [exc EXCEPT ![pid] = "IOError"]
                    /\ stdout' = stdout
               ELSE /\ wpc' = [wpc EXCEPT ![pid] = "get"]
                    /\ exc' = exc
                    /\ stdout' = IF PrintsOutput(args)
                                 THEN stdout \cup
                                          {[jid |-> job[pid].jid,
                                            text |-> print_text("output")]}
                                 ELSE stdout
    /\ UNCHANGED <<inVars, supVars, q_in, q_out, job, stderr, put_log,
                   get_log>>

\* (mutant) the event carries the worker's id where the job's belongs
FailureEvent_PidForJid(pid, jid, e) ==
    [pid |-> pid, event |-> [jid |-> pid, exc |-> e]]
\* the event of line 233
FailureEvent(pid, jid, e) == [pid |-> pid, event |-> [jid |-> jid, exc |-> e]]

\* (mutant) every worker signs its last event with the id 0
DoneEvent_PidZero(pid) == [pid |-> 0, event |-> None]
\* the event of line 235
DoneEvent(pid) == [pid |-> pid, event |-> None]

\* (mutant) the handler puts the failed job back on the job queue
Except_Requeue(pid) ==
    /\ pid \in DOMAIN wpc
    /\ wpc[pid] = "except"
    /\ stderr' = stderr \cup {[kind |-> "failed", jid |-> job[pid].jid,
                               total |-> Total(args),
                               cedible |-> args.cedible,
                               pth |-> job[pid].source.pth,
                               exc |-> exc[pid]]}
    /\ IF args.debug
       THEN /\ wpc' = [wpc EXCEPT ![pid] = "dead"]
            /\ UNCHANGED <<q_in, q_out, put_log>>
       ELSE /\ wpc' = [wpc EXCEPT ![pid] = "get"]
            /\ q_in' = queue_put(q_in, job[pid])
            /\ q_out' = queue_put(q_out,
                                   FailureEvent(pid, job[pid].jid, exc[pid]))
            /\ put_log' = put_log
                            (+) SetToBag({FailureEvent(pid, job[pid].jid,
                                                       exc[pid])})
    /\ UNCHANGED <<inVars, supVars, job, exc, effVars, get_log>>
\* lines 224-233: the handler of Exception: log, re-raise under --debug
\* (which ends the thread), else report the failure and loop
Except(pid) ==
    /\ pid \in DOMAIN wpc
    /\ wpc[pid] = "except"
    /\ stderr' = stderr \cup {[kind |-> "failed", jid |-> job[pid].jid,
                               total |-> Total(args),
                               cedible |-> args.cedible,
                               pth |-> job[pid].source.pth,
                               exc |-> exc[pid]]}
    /\ IF args.debug
       THEN /\ wpc' = [wpc EXCEPT ![pid] = "dead"]
            /\ UNCHANGED <<q_out, put_log>>
       ELSE /\ wpc' = [wpc EXCEPT ![pid] = "get"]
            /\ q_out' = queue_put(q_out,
                                   FailureEvent(pid, job[pid].jid, exc[pid]))
            /\ put_log' = put_log
                            (+) SetToBag({FailureEvent(pid, job[pid].jid,
                                                       exc[pid])})
    /\ UNCHANGED <<inVars, supVars, q_in, job, exc, effVars, get_log>>

\* (mutant) the thread tells the parent and goes back to q_in.get()
Out_BackToGet(pid) ==
    /\ pid \in DOMAIN wpc
    /\ wpc[pid] = "out"
    /\ q_out' = queue_put(q_out, DoneEvent(pid))
    /\ put_log' = put_log (+) SetToBag({DoneEvent(pid)})
    /\ wpc' = [wpc EXCEPT ![pid] = "get"]
    /\ UNCHANGED <<inVars, supVars, q_in, job, exc, effVars, stderr,
                   get_log>>
\* line 235: after the loop, tell the parent and return
Out(pid) ==
    /\ pid \in DOMAIN wpc
    /\ wpc[pid] = "out"
    /\ q_out' = queue_put(q_out, DoneEvent(pid))
    /\ put_log' = put_log (+) SetToBag({DoneEvent(pid)})
    /\ wpc' = [wpc EXCEPT ![pid] = "done"]
    /\ UNCHANGED <<inVars, supVars, q_in, job, exc, effVars, stderr,
                   get_log>>

\* main (main.py lines 67-85): the process's exit status once handle_create
\* is over. A normal return falls off main: status 0. The SystemExit of line
\* 92 carries a message and passes `except Exception`: status 1. Any other
\* exception, and a KeyboardInterrupt, goes to _error_handling: sys.exit(1),
\* or the debugger under --debug. -1 stands for no status: still running,
\* or in the debugger.
ExitStatus ==
    CASE spc = "returned" -> 0
      [] spc = "exit" -> 1
      [] spc = "raised" -> IF args.debug THEN -1 ELSE 1
      [] spc = "interrupted" -> IF args.debug THEN -1 ELSE 1
      [] OTHER -> -1

\* ----------------------------------------------------------- specification
Pids == 0..(Max({MaxJobsOpt, CpuCount, 1}) - 1)

Next ==
    \/ ReadSources
    \/ Feed
    \/ \E pid \in Pids : Start(pid)
    \/ Drain
    \/ \E pid \in Pids : Get(pid)
    \/ \E pid \in Pids : Load(pid)
    \/ \E pid \in Pids : Check(pid)
    \/ \E pid \in Pids : Render(pid)
    \/ \E pid \in Pids : Write(pid)
    \/ \E pid \in Pids : Except(pid)
    \/ \E pid \in Pids : Out(pid)

Spec == Init /\ [][Next]_vars

\* The same runs under a scheduler that lets some thread that can take a
\* step take one: the main thread and the workers are threads of one
\* process, and a thread that is not blocked in a queue's get() or in a
\* join() is runnable.
SpecFair == Spec /\ WF_vars(Next)

\* -------------------------------------------- the worker count on its own
\* Largest number given to --jobs, and largest mp.cpu_count(), of the runs
\* that stop once the worker count is determined.
MaxJobsArg == 12
MaxCpus == 8

\* --jobs absent, or the decimal string of 0..MaxJobsArg
JobsArgs == {<< >>} \cup {IntToStr(n) : n \in 0..MaxJobsArg}

\* runs with no input, followed up to the point the threads are created
InitWorkerCount ==
    /\ args \in { a \in [debug : {FALSE}, verbose : {TRUE}, cedible : {FALSE},
                        medium : {"carta"}, jobs : JobsArgs, tex : {FALSE},
                        pdf : {TRUE}, suffixed : {FALSE}, generate : {FALSE},
                        outfile : {<< >>}, infile : {<< >>}] : ValidArgs(a) }
    /\ input = << >>
    /\ cpu_count \in 1..MaxCpus
    /\ spc = "read"
    /\ sources = << >>
    /\ worker_count = 0
    /\ q_in = << >>
    /\ q_out = << >>
    /\ workers = {}
    /\ wpc = << >>
    /\ job = << >>
    /\ exc = << >>
    /\ calls = {}
    /\ files = {}
    /\ stdout = {}
    /\ stderr = {}
    /\ put_log = EmptyBag
    /\ get_log = EmptyBag
    /\ faults = 0

NextWorkerCount ==
    \/ ReadSources
    \/ Feed

SpecWorkerCount == InitWorkerCount /\ [][NextWorkerCount]_vars

\* ------------------------------------------- the naming policies on their own
\* Input paths "a.x", "d/a.x", "a.b.x" and "b" of the runs that name their
\* outputs themselves.
PathsNaming == { <<"a", ".", "x">>, <<"d", "/", "a", ".", "x">>,
                 <<"a", ".", "b", ".", "x">>, <<"b">> }

\* Their documents: serials and issuers of one and of two digits.
DocsNaming ==
    { [wellformed |-> TRUE, TipoDTE |-> 33, Folio |-> 1,
       RUTEmisor |-> <<"7", "-", "k">>],
      [wellformed |-> TRUE, TipoDTE |-> 33, Folio |-> 12,
       RUTEmisor |-> <<"7", "-", "k">>],
      [wellformed |-> TRUE, TipoDTE |-> NotaCredito, Folio |-> 1,
       RUTEmisor |-> <<"1", "2", "-", "3">>],
      [wellformed |-> FALSE, TipoDTE |-> 0, Folio |-> 0, RUTEmisor |-> << >>] }

\* create pdf (--suffixed | --generate) <infile>..., one worker, no --debug,
\* one to MaxJobs distinct files
InitNaming ==
    /\ args \in { a \in [debug : {FALSE}, verbose : {TRUE}, cedible : BOOLEAN,
                        medium : {"carta"}, jobs : {<< >>}, tex : {FALSE},
                        pdf : {TRUE}, suffixed : BOOLEAN, generate : BOOLEAN,
                        outfile : {<< >>},
                        infile : SeqsUpTo(PathsNaming, MaxJobs)] :
                    /\ ValidArgs(a)
                    /\ a.suffixed \/ a.generate
                    /\ Len(a.infile) >= 1
                    /\ \A i, j \in 1..Len(a.infile) :
                           i # j => a.infile[i] # a.infile[j] }
    /\ input \in SeqsUpTo(DocsNaming, MaxJobs)
    /\ Len(input) = Len(args.infile)
    /\ cpu_count = CpuCount
    /\ spc = "read"
    /\ sources = << >>
    /\ worker_count = 0
    /\ q_in = << >>
    /\ q_out = << >>
    /\ workers = {}
    /\ wpc = << >>
    /\ job = << >>
    /\ exc = << >>
    /\ calls = {}
    /\ files = {}
    /\ stdout = {}
    /\ stderr = {}
    /\ put_log = EmptyBag
    /\ get_log = EmptyBag
    /\ faults = 0

SpecNaming == InitNaming /\ [][Next]_vars

\* ------------------------------------------------------ runs with a signal
\* The signals the spec names. handle_create installs no handler (lines
\* 115-117 are comments) and queue.Queue has no close(), so the defaults of
\* the interpreter apply.
Signals == {"SIGINT", "SIGTERM"}

\* A signal arrives while handle_create runs. SIGINT raises KeyboardInterrupt
\* in the main thread, which leaves handle_create for main's handler
\* (main.py line 73) while the threads, which are no daemons, go on until
\* they return: nothing touches q_in. SIGTERM ends the process and every
\* thread with it.
Interrupt(sig) ==
    /\ spc \in {"read", "feed", "start", "drain"}
    /\ IF sig = "SIGINT"
       THEN /\ spc' = "interrupted"
            /\ wpc' = wpc
       ELSE /\ spc' = "killed"
            /\ wpc' = [pid \in DOMAIN wpc |->
                          IF wpc[pid] = "done" THEN "done" ELSE "dead"]
    /\ UNCHANGED <<inVars, sources, worker_count, workers, q_in, q_out, job,
                   exc, effVars, stderr, put_log, get_log>>

\* create pdf --generate a.x [b.x], one or two workers, no --debug
InitInterrupt ==
    /\ args \in { a \in [debug : {FALSE}, verbose : {TRUE}, cedible : {FALSE},
                        medium : {"carta"},
                        jobs : {<< >>, IntToStr(MaxJobsOpt)}, tex : {FALSE},
                        pdf : {TRUE}, suffixed : {FALSE}, generate : {TRUE},
                        outfile : {<< >>}, infile : Infiles] :
                    ValidArgs(a) /\ Len(a.infile) >= 1 }
    /\ input \in SeqsUpTo(Docs, MaxJobs)
    /\ Len(input) = Len(args.infile)
    /\ cpu_count = CpuCount
    /\ spc = "read"
    /\ sources = << >>
    /\ worker_count = 0
    /\ q_in = << >>
    /\ q_out = << >>
    /\ workers = {}
    /\ wpc = << >>
    /\ job = << >>
    /\ exc = << >>
    /\ calls = {}
    /\ files = {}
    /\ stdout = {}
    /\ stderr = {}
    /\ put_log = EmptyBag
    /\ get_log = EmptyBag
    /\ faults = 0

NextInterrupt ==
    \/ Next
    \/ \E sig \in Signals : Interrupt(sig)

SpecInterrupt == InitInterrupt /\ [][NextInterrupt]_vars

\* ------------------------------------------------- vocabulary of the claims
\* sequence ids of the jobs of the run
Jids == 1..Len(input)

\* the payload of the job with sequence id j
DocOf(j) == input[j]

\* the queue item line 110 builds for job j
ItemOf(j) == [source |-> sources[j], jid |-> j]

\* how many times an item was taken from the job queue, by anyone
Dequeues(item) ==
    LET takers == {p \in DOMAIN wpc : BagIn(<<p, item>>, get_log)}
        RECURSIVE Sum(_)
        Sum(S) == IF S = {} THEN 0
                  ELSE LET p == CHOOSE x \in S : TRUE
                       IN  CopiesIn(<<p, item>>, get_log) + Sum(S \ {p})
    IN  Sum(takers)

\* the worker is inside the pipeline of the job it holds
InPipeline(pid) == wpc[pid] \in {"load", "check", "render", "write", "except"}

\* job j was taken from the queue and no worker is working on it any more
Finished(j) ==
    /\ j <= Len(sources)
    /\ Dequeues(ItemOf(j)) > 0
    /\ ~\E pid \in DOMAIN wpc : InPipeline(pid) /\ job[pid].jid = j

\* how many outcome events with sequence id j were ever put on q_out
EventsFor(j) ==
    LET evs == {e \in BagToSet(put_log) : e.event # None /\ e.event.jid = j}
        RECURSIVE Sum(_)
        Sum(S) == IF S = {} THEN 0
                  ELSE LET e == CHOOSE x \in S : TRUE
                       IN  CopiesIn(e, put_log) + Sum(S \ {e})
    IN  Sum(evs)

\* a "FAILED" line was logged for job j: its pipeline raised an Exception
FailedLine(j) == \E l \in stderr : l.kind = "failed" /\ l.jid = j

\* the thread working on job j was ended by an exception
DiedOn(j) ==
    \E pid \in DOMAIN wpc : wpc[pid] = "dead" /\ job[pid] # None /\ job[pid].jid = j

\* the pipeline of job j raised
JobFailed(j) ==
    \/ FailedLine(j)
    \/ DiedOn(j)
    \/ \E pid \in DOMAIN wpc :
           wpc[pid] = "except" /\ job[pid] # None /\ job[pid].jid = j

\* an artifact of job j exists: a file written, or output printed
Artifact(j) == (\E f \in files : f.jid = j) \/ (\E o \in stdout : o.jid = j)

\* business validation as the claims state it: cedible on a document of
\* type 56 or 61, or a medium other than carta, oficio, thermal80mm
FailsValidation(j) ==
    \/ args.cedible /\ DocOf(j).TipoDTE \in {56, 61}
    \/ args.medium \notin {"carta", "oficio", "thermal80mm"}

\* every thread has ended, normally or not
AllThreadsEnded ==
    DOMAIN wpc # {} /\ \A pid \in DOMAIN wpc : wpc[pid] \in {"done", "dead"}

\* the supervisor waits in q_out.get() for an event no thread is left to put
SupervisorBlockedForever ==
    spc = "drain" /\ q_out = << >> /\ AllThreadsEnded

\* WorkerDone events the supervisor has taken from q_out
DoneReceived ==
    Cardinality({pid \in DOMAIN wpc :
                    /\ BagIn(DoneEvent(pid), put_log)
                    /\ \A i \in 1..Len(q_out) : q_out[i] # DoneEvent(pid)})

\* ------------------------------------------------------------------ claims
\* C1 (as claimed): in a run with at least one job, in either mode and
\* whatever jobs fail, the supervisor is never left waiting on the result
\* queue with no thread left to put on it, and when its loop ends it has
\* taken one WorkerDone per spawned worker.
C1_SupervisorCollectsAllWorkers ==
    Len(input) >= 1 =>
        /\ ~SupervisorBlockedForever
        /\ spc = "returned" => DoneReceived = worker_count

\* no job of the run fails business validation
NoJobFailsValidation == \A j \in Jids : ~FailsValidation(j)

C3_EachJobDequeuedExactlyOnce ==
    /\ (NoJobFailsValidation /\ AllThreadsEnded) =>
           \A j \in Jids : Dequeues(ItemOf(j)) = 1
    /\ \A p, q \in DOMAIN wpc :
           (p # q /\ InPipeline(p) /\ InPipeline(q)) => job[p] # job[q]

\* copies of an item in the job queue
InQueue(item) == Cardinality({i \in 1..Len(q_in) : q_in[i] = item})

\* C3 (amended): once the queue is fed, each job is either still in the job
\* queue or was taken from it exactly once, never both and never twice; and
\* no two workers hold one job.
C3_NoJobTakenTwice ==
    DOMAIN wpc # {} =>
        /\ \A j \in Jids : InQueue(ItemOf(j)) + Dequeues(ItemOf(j)) = 1
        /\ \A p, q \in DOMAIN wpc :
               (p # q /\ InPipeline(p) /\ InPipeline(q)) => job[p] # job[q]

\* C3 witness: two workers are inside the pipelines of two jobs at once.
C3_Witness ==
    \E p, q \in DOMAIN wpc :
        /\ p # q /\ InPipeline(p) /\ InPipeline(q)
        /\ Dequeues(job[p]) = 1 /\ Dequeues(job[q]) = 1

\* C4 (as claimed): not under --debug, a worker that is out of its loop has
\* taken a sentinel, and a job whose pipeline raised has its Failure put.
C4_WorkerLeavesOnlyOnSentinel ==
    ~args.debug =>
        /\ \A pid \in DOMAIN wpc :
               wpc[pid] \in {"out", "done", "dead"} =>
                   BagIn(<<pid, None>>, get_log)
        /\ \A j \in Jids : (Finished(j) /\ JobFailed(j)) => EventsFor(j) >= 1

\* C5 (as claimed): once a worker is done with a job that failed business
\* validation, a Failure with the job's sequence id has been put.
C5_ValidationFailureReported ==
    \A j \in Jids :
        (Finished(j) /\ DocOf(j).wellformed /\ FailsValidation(j)) =>
            EventsFor(j) >= 1

\* C6: for a job that fails business validation the printing backend is
\* never called and no artifact is ever produced.
C6_RejectedJobNeverRendered ==
    \A j \in Jids :
        FailsValidation(j) =>
            /\ ~\E c \in calls : c.jid = j
            /\ ~Artifact(j)

\* C6 witness: a well-formed job that fails validation was taken and dropped
\* by its worker, in a run where another job produced its artifact.
C6_Witness ==
    \E j, k \in Jids :
        /\ DocOf(j).wellformed /\ FailsValidation(j) /\ Finished(j)
        /\ Artifact(k)

\* C7 (as claimed): under --debug, after a job has failed the supervisor is
\* not left waiting on the result queue forever.
C7_FailFastAborts ==
    (args.debug /\ \E j \in Jids : JobFailed(j)) => ~SupervisorBlockedForever

\* jobs taken from the job queue so far
DequeuedJobs == {j \in 1..Len(sources) : Dequeues(ItemOf(j)) > 0}

\* jobs whose failure was reported so far
ReportedFailures == {j \in Jids : FailedLine(j)}

\* C8 (as claimed): under --debug, once a job has failed and its worker is
\* through with it, no step takes a further job from the job queue, and at
\* most one failure is reported.
C8_NoDequeueAfterFirstFailure ==
    [][(args.debug /\ \E j \in Jids : FailedLine(j) \/ DiedOn(j)) =>
           /\ DequeuedJobs' = DequeuedJobs
           /\ Cardinality(ReportedFailures') <= 1]_vars

\* C9 (as claimed): with an <outfile> and more than one job, no worker is
\* ever started, no job is taken from the queue and nothing is written.
C9_ExplicitManyJobsRejected ==
    (args.outfile # << >> /\ Len(input) > 1) =>
        /\ \A pid \in DOMAIN wpc : wpc[pid] = "new"
        /\ get_log = EmptyBag
        /\ files = {}

\* the inputs of jobs i and j differ in every field a name is built from:
\* the source label, its base name's stem, and (issuer, type, serial)
NamingFieldsDiffer(i, j) ==
    /\ sources[i].pth # sources[j].pth
    /\ SplitFirst(basename(sources[i].pth), ".")
           # SplitFirst(basename(sources[j].pth), ".")
    /\ <<DocOf(i).RUTEmisor, DocOf(i).TipoDTE, DocOf(i).Folio>>
           # <<DocOf(j).RUTEmisor, DocOf(j).TipoDTE, DocOf(j).Folio>>

\* C10 (as claimed): two jobs whose inputs differ in the naming fields never
\* write to the same path, in the tex and in the pdf form, under any policy.
C10_NoTwoJobsWriteOnePath ==
    \A f, g \in files :
        (f.jid # g.jid /\ NamingFieldsDiffer(f.jid, g.jid)) => f.path # g.path

\* C11: when handle_create has returned, every spawned worker was popped from
\* `workers` on its own WorkerDone and joined: the dict is empty, every thread
\* has returned after putting its WorkerDone exactly once, and the supervisor
\* has taken all of them from the result queue.
C11_ReturnsOnlyAfterAllWorkersDone ==
    spc = "returned" =>
        /\ workers = {}
        /\ worker_count >= 1
        /\ DOMAIN wpc = 0..(worker_count - 1)
        /\ \A pid \in DOMAIN wpc :
               /\ wpc[pid] = "done"
               /\ CopiesIn(DoneEvent(pid), put_log) = 1
        /\ DoneReceived = worker_count

\* C11 witness: a run with two workers and two jobs, one of them failed, has
\* returned.
C11_Witness ==
    /\ spc = "returned"
    /\ worker_count = 2
    /\ Len(input) = 2
    /\ \E j \in Jids : FailedLine(j)

\* C12 (as claimed): not under --debug, whatever jobs fail, the supervisor is
\* never left waiting on the result queue with no thread left to put on it;
\* and when the run has returned, one Failure was put for each job that
\* failed and for no other, and an artifact exists for exactly the jobs that
\* did not fail.
C12_TolerantRunCompletes ==
    ~args.debug =>
        /\ ~SupervisorBlockedForever
        /\ spc = "returned" =>
               \A j \in Jids :
                   /\ EventsFor(j) = (IF JobFailed(j) THEN 1 ELSE 0)
                   /\ Artifact(j) <=> ~JobFailed(j)

\* C13 (as claimed): a run that returned after every job succeeded and a run
\* that returned after at least one job failed end with different exit
\* statuses: 0 for the first, something else for the second.
C13_ExitStatusReflectsFailures ==
    spc = "returned" =>
        /\ (\A j \in Jids : ~JobFailed(j)) => ExitStatus = 0
        /\ (\E j \in Jids : JobFailed(j)) => ExitStatus # 0

\* C14 (as claimed): once a worker is done with a job that failed, whatever
\* raised and wherever the input came from, a FAILED line was printed with
\* the job's sequence id, the number of jobs of the run, the job's source
\* label and the exception.
C14_EveryFailureLogged ==
    \A j \in Jids :
        (Finished(j) /\ JobFailed(j)) =>
            \E l \in stderr :
                /\ l.kind = "failed"
                /\ l.jid = j
                /\ l.total = Len(input)
                /\ l.pth = sources[j].pth
                /\ l.exc # "none"

\* C15: once the threads are created, the worker count is n for --jobs n
\* with n > 0, the larger of cpu_count - 1 and 1 for --jobs 0, and 1 without
\* --jobs; it is at least 1 in each case.
C15_WorkerCount ==
    spc = "start" =>
        /\ worker_count >= 1
        /\ args.jobs = << >> => worker_count = 1
        /\ \A n \in 0..MaxJobsArg :
               args.jobs = IntToStr(n) =>
                   worker_count = (IF n > 0 THEN n
                                   ELSE IF cpu_count - 1 > 1
                                   THEN cpu_count - 1 ELSE 1)

\* C15 witness: --jobs 0 on a machine with one CPU gave one worker.
C15_Witness ==
    /\ spc = "start"
    /\ args.jobs = IntToStr(0)
    /\ cpu_count = 1
    /\ worker_count = 1
    /\ Len(q_in) = 1

\* the pipeline of job j completed: its worker is done with it, no failure
Succeeded(j) == Finished(j) /\ ~JobFailed(j)

\* the base name of a source label: its last path component without its
\* extension, that is, without what its last "." starts
BaseNameOf(label) ==
    LET b == basename(label)
    IN  IF Positions(b, ".") = {} THEN b
        ELSE SubSeq(b, 1, Max(Positions(b, ".")) - 1)

\* "_cedible" exactly when the cedible flag is set
CedibleSuffix == IF args.cedible THEN Str_cedible ELSE << >>

\* C16 (as claimed): under --suffixed, a job that succeeded has written one
\* file, and every file a job writes is at the base name of the job's source
\* label, then "_cedible" when --cedible is given, then ".pdf".
C16_SuffixedDestination ==
    args.suffixed =>
        /\ \A j \in Jids : Succeeded(j) => \E f \in files : f.jid = j
        /\ \A f \in files :
               f.path = BaseNameOf(sources[f.jid].pth)
                            \o CedibleSuffix \o Str_pdf

\* the issuer id of a document: the number before the "-" of its RUTEmisor
IssuerIdOf(doc) ==
    StrToInt(SubSeq(doc.RUTEmisor, 1,
                    Min(Positions(doc.RUTEmisor, "-") \cup
                            {Len(doc.RUTEmisor) + 1}) - 1))

\* C17: under --generate, a job that succeeded has written one file, and
\* every file a job writes is at "{issuer}_{type}_{serial}", the three fields
\* being those of the job's own document, then "_cedible" when --cedible is
\* given, then ".pdf".
C17_GeneratedDestination ==
    args.generate =>
        /\ \A j \in Jids : Succeeded(j) => \E f \in files : f.jid = j
        /\ \A f \in files :
               f.path = IntToStr(IssuerIdOf(DocOf(f.jid))) \o <<"_">>
                            \o IntToStr(DocOf(f.jid).TipoDTE) \o <<"_">>
                            \o IntToStr(DocOf(f.jid).Folio)
                            \o CedibleSuffix \o Str_pdf

\* C17 witness: two jobs of a --generate --cedible run succeeded; the one
\* for serial 12 of issuer 7-k wrote "7_33_12_cedible.pdf", the other one
\* "7_33_1_cedible.pdf".
C17_Witness ==
    /\ args.generate /\ args.cedible
    /\ \E j, k \in Jids :
        /\ j # k /\ Succeeded(j) /\ Succeeded(k)
        /\ [jid |-> j, data |-> "output",
            path |-> <<"7", "_", "3", "3", "_", "1", "2">>
                         \o Str_cedible \o Str_pdf] \in files
        /\ [jid |-> k, data |-> "output",
            path |-> <<"7", "_", "3", "3", "_", "1">>
                         \o Str_cedible \o Str_pdf] \in files

\* the identifying triple of a job under --generate
TripleOf(j) == <<IssuerIdOf(DocOf(j)), DocOf(j).TipoDTE, DocOf(j).Folio>>

\* C18 (as claimed): two jobs with distinct source labels under --suffixed,
\* or with distinct (issuer, type, serial) triples under --generate, never
\* write to the same path.
C18_DestinationsInjective ==
    \A f, g \in files :
        ( /\ f.jid # g.jid
          /\ \/ args.suffixed /\ sources[f.jid].pth # sources[g.jid].pth
             \/ args.generate /\ TripleOf(f.jid) # TripleOf(g.jid) )
        => f.path # g.path

\* C19: in a run of one job in the pdf form with an <outfile>, nothing but
\* the decoded output of the job is ever written and nowhere but at
\* <outfile>; once the job has succeeded that one file exists and nothing
\* was printed.
C19_ExplicitSingleJob ==
    (Len(input) = 1 /\ args.pdf /\ args.outfile # << >>) =>
        /\ files \subseteq
               {[path |-> args.outfile, data |-> "output", jid |-> 1]}
        /\ Succeeded(1) =>
               /\ files = {[path |-> args.outfile, data |-> "output",
                            jid |-> 1]}
               /\ stdout = {}

\* C19 witness: the one job of a `create pdf o/t` run has succeeded and the
\* run has returned.
C19_Witness ==
    /\ Len(input) = 1 /\ args.pdf /\ args.outfile = <<"o", "/", "t">>
    /\ Succeeded(1)
    /\ spc = "returned"
    /\ \E f \in files : f.path = <<"o", "/", "t">>

\* C20 (as claimed): in the tex form, with or without an <outfile>, a job
\* that succeeded has written the template to its destination (<outfile>
\* when there is one) and each resource of the backend to a file of the
\* resource's name in the directory of that destination.
C20_TexWritesTemplateAndResources ==
    args.tex =>
        \A j \in Jids :
            Succeeded(j) =>
                \E f \in files :
                    /\ f.jid = j /\ f.data = "template"
                    /\ args.outfile # << >> => f.path = args.outfile
                    /\ \A i \in 1..Len(Resources) :
                           \E g \in files :
                               /\ g.jid = j /\ g.data = "resource"
                               /\ basename(g.path) = Resources[i]
                               /\ dirname(g.path) = dirname(f.path)

\* C21 (as claimed): once a signal has arrived, no worker takes a further
\* job from the job queue.
C21_InterruptStopsDequeuing ==
    [][(spc \in {"interrupted", "killed"}) =>
           DequeuedJobs' = DequeuedJobs]_vars

\* a worker thread that runs no more
Terminated(pc) == pc \in {"done", "dead"}

\* C22 (as claimed): every step of a worker is Idle -> Processing,
\* Processing -> Idle or Idle -> Terminated. A worker that stops running does
\* so after taking a sentinel and has then put its WorkerDone exactly once;
\* a worker inside a job's pipeline leaves it for the queue only; and a
\* worker that has stopped takes nothing more from the job queue and puts
\* nothing more on the result queue.
C22_WorkerStateMachine ==
    [][\A pid \in DOMAIN wpc :
          /\ (Terminated(wpc'[pid]) /\ ~Terminated(wpc[pid])) =>
                 /\ wpc[pid] = "out"
                 /\ BagIn(<<pid, None>>, get_log)
                 /\ CopiesIn(DoneEvent(pid), put_log') = 1
          /\ (InPipeline(pid) /\ wpc'[pid] \notin
                  {"load", "check", "render", "write", "except"}) =>
                 wpc'[pid] = "get"
          /\ Terminated(wpc[pid]) =>
                 /\ wpc'[pid] = wpc[pid]
                 /\ \A e \in BagToSet(get_log') :
                        e[1] = pid =>
                            CopiesIn(e, get_log') = CopiesIn(e, get_log)
                 /\ \A e \in BagToSet(put_log') :
                        e.pid = pid =>
                            CopiesIn(e, put_log') = CopiesIn(e, put_log)]_vars

\* the source label of the i-th input document
LabelOf(i) == IF args.infile # << >> THEN args.infile[i] ELSE Str_stdin

\* C23: when the first worker is about to be started, the job queue holds
\* the N jobs in input order, the i-th with sequence id i and the i-th
\* input's label and payload, then W sentinels and nothing else, W being the
\* number of threads created, at least 1, with the ids 0..W-1.
C23_QueueAtFirstStart ==
    (spc = "start" /\ \A pid \in DOMAIN wpc : wpc[pid] = "new") =>
        /\ worker_count >= 1
        /\ DOMAIN wpc = 0..(worker_count - 1)
        /\ workers = DOMAIN wpc
        /\ Len(q_in) = Len(input) + worker_count
        /\ \A i \in 1..Len(input) :
               /\ q_in[i] # None
               /\ q_in[i].jid = i
               /\ q_in[i].source.pth = LabelOf(i)
               /\ q_in[i].source.bytebuff = input[i]
        /\ \A i \in (Len(input) + 1)..Len(q_in) : q_in[i] = None

\* C23 witness: two jobs from two files and two workers, none started yet.
C23_Witness ==
    /\ spc = "start" /\ \A pid \in DOMAIN wpc : wpc[pid] = "new"
    /\ Len(input) = 2 /\ Len(args.infile) = 2 /\ worker_count = 2
    /\ Len(q_in) = 4

\* C24: jobs leave the job queue in submission order: whenever a step takes
\* job j from the queue, whichever worker takes it, every job with a smaller
\* sequence id has been taken before.
C24_DequeuedInSubmissionOrder ==
    [][\A j \in DequeuedJobs' \ DequeuedJobs :
           \A i \in 1..(j - 1) : i \in DequeuedJobs]_vars

\* C24 witness: job 2, taken after job 1, is finished while a worker is
\* still inside the pipeline of job 1.
C24_Witness ==
    /\ Len(input) = 2
    /\ Finished(2)
    /\ \E pid \in DOMAIN wpc : InPipeline(pid) /\ job[pid].jid = 1

\* the step puts one event at the tail of the result queue, and the worker
\* that puts it has not put its WorkerDone before
PutsOneEvent ==
    /\ Len(q_out') = Len(q_out) + 1
    /\ SubSeq(q_out', 1, Len(q_out)) = q_out
    /\ LET e == q_out'[Len(q_out')]
       IN  /\ e.pid \in DOMAIN wpc
           /\ ~BagIn(DoneEvent(e.pid), put_log)
           /\ put_log' = put_log (+) SetToBag({e})

\* the step is the supervisor's, and takes the head of the result queue
PopsOneEvent ==
    /\ spc = "drain"
    /\ q_out # << >>
    /\ q_out' = Tail(q_out)
    /\ wpc' = wpc
    /\ put_log' = put_log

\* C25: the result queue changes only by a worker putting one event at its
\* tail, never after that worker's WorkerDone, or by the supervisor taking
\* its head; and when the supervisor stops draining, not under --debug, the
\* queue is empty: every event put was taken, once, by the supervisor.
C25_EveryEventPoppedOnce ==
    [][/\ q_out' # q_out => (PutsOneEvent \/ PopsOneEvent)
       /\ (spc' = "returned" /\ ~args.debug) => q_out' = << >>]_vars

\* C25 witness: a run of two workers has returned, not under --debug, after
\* a Failure and the two WorkerDone were put.
C25_Witness ==
    /\ spc = "returned" /\ ~args.debug /\ worker_count = 2
    /\ q_out = << >>
    /\ \E e \in BagToSet(put_log) : e.event # None
    /\ \A pid \in DOMAIN wpc : BagIn(DoneEvent(pid), put_log)

\* C26: a turn of the supervisor's loop on a Failure leaves `workers` as it
\* is and the loop running; a turn on the WorkerDone of an outstanding
\* worker removes that worker and no other; nothing else changes `workers`
\* once the threads exist; and the loop has stopped exactly when `workers`
\* is empty.
C26_DrainFrame ==
    [][/\ (spc = "drain" /\ q_out # << >> /\ q_out' = Tail(q_out)) =>
              /\ Head(q_out).event # None =>
                     (workers' = workers /\ spc' = "drain")
              /\ (Head(q_out).event = None /\ Head(q_out).pid \in workers) =>
                     workers' = workers \ {Head(q_out).pid}
       /\ (workers' # workers /\ spc # "feed") =>
              (spc = "drain" /\ q_out # << >> /\ q_out' = Tail(q_out))
       /\ spc' = "returned" => workers' = {}
       /\ spc' = "drain" => workers' # {}]_vars

\* C26 witness: of two workers one is still outstanding, after the
\* supervisor took a Failure and the other worker's WorkerDone.
C26_Witness ==
    /\ spc = "drain" /\ worker_count = 2 /\ Cardinality(workers) = 1
    /\ \E e \in BagToSet(put_log) :
           /\ e.event # None
           /\ \A i \in 1..Len(q_out) : q_out[i] # e

\* C27: once the threads exist, a step leaves the job queue as it is or
\* takes its head, so nothing is ever put on it; and a job that failed is
\* not in the queue and was taken from it exactly once.
C27_NothingRequeued ==
    [][DOMAIN wpc # {} =>
           /\ q_in' = q_in \/ (q_in # << >> /\ q_in' = Tail(q_in))
           /\ (\A j \in Jids :
                  JobFailed(j) =>
                      /\ InQueue(ItemOf(j)) = 0
                      /\ Dequeues(ItemOf(j)) = 1)']_vars

\* C27 witness: job 1 failed and its worker, not ended by it, went on to
\* take job 2.
C27_Witness ==
    /\ Len(input) = 2
    /\ FailedLine(1) /\ Finished(1)
    /\ InQueue(ItemOf(1)) = 0
    /\ \E pid \in DOMAIN wpc :
           /\ BagIn(<<pid, ItemOf(1)>>, get_log)
           /\ BagIn(<<pid, ItemOf(2)>>, get_log)

\* the "Generated" line of job j was printed
GeneratedLine(j) == \E l \in stderr : l.kind = "generated" /\ l.jid = j

\* C28 (as claimed): a job the backend was called for has passed validation;
\* a job that wrote a file had the render call made before; and a job whose
\* "Generated" line was printed has its artifact written and has not
\* failed.
C28_PipelineOrder ==
    \A j \in Jids :
        /\ (\E c \in calls : c.jid = j) => ~FailsValidation(j)
        /\ (\E f \in files : f.jid = j) =>
               [fn |-> "create_template", jid |-> j] \in calls
        /\ GeneratedLine(j) => (Artifact(j) /\ ~JobFailed(j))

\* C29 (as claimed): in the pdf form with none of --suffixed, --generate and
\* <outfile>, a job that succeeded has written no file, and what it put on
\* standard output is its artifact: the decoded output bytes.
C29_StreamPolicy ==
    (args.pdf /\ ~args.suffixed /\ ~args.generate /\ args.outfile = << >>) =>
        \A j \in Jids :
            Succeeded(j) =>
                /\ ~\E f \in files : f.jid = j
                /\ \E o \in stdout : o.jid = j /\ o.text = <<"output">>

\* C30: once the queue is fed, a sentinel at its head has only sentinels
\* behind it, and once any worker has taken a sentinel the job queue holds
\* no job: every job was taken from it before.
C30_NoJobBehindSentinel ==
    DOMAIN wpc # {} =>
        /\ (q_in # << >> /\ Head(q_in) = None) =>
               \A i \in 1..Len(q_in) : q_in[i] = None
        /\ (\E pid \in DOMAIN wpc : BagIn(<<pid, None>>, get_log)) =>
               /\ \A i \in 1..Len(q_in) : q_in[i] = None
               /\ \A j \in Jids : Dequeues(ItemOf(j)) = 1

\* C30 witness: of two workers one has taken a sentinel while the other is
\* still inside the pipeline of the second of two jobs.
C30_Witness ==
    /\ Len(input) = 2 /\ worker_count = 2
    /\ \E p, q \in DOMAIN wpc :
           /\ BagIn(<<p, None>>, get_log)
           /\ InPipeline(q) /\ job[q].jid = 2

\* sentinels still in the job queue
SentinelsInQueue == Cardinality({i \in 1..Len(q_in) : q_in[i] = None})

\* workers that have taken a sentinel
SentinelTakers == {pid \in DOMAIN wpc : BagIn(<<pid, None>>, get_log)}

\* C31 (as claimed): once the queue is fed, the sentinels in the job queue
\* are as many as the workers less those that have taken one, and no worker
\* takes two; and not under --debug, a worker about to take an item never
\* finds the queue empty, and the queue is empty once every worker thread
\* has ended.
C31_SentinelCount ==
    DOMAIN wpc # {} =>
        /\ SentinelsInQueue = worker_count - Cardinality(SentinelTakers)
        /\ \A pid \in DOMAIN wpc : CopiesIn(<<pid, None>>, get_log) <= 1
        /\ ~args.debug =>
               /\ (\E pid \in DOMAIN wpc : wpc[pid] = "get") => q_in # << >>
               /\ AllThreadsEnded => q_in = << >>

\* C32: workers.pop(pid) never raises KeyError: the supervisor never ends
\* by that exception, every (pid, None) waiting in the result queue names a
\* worker still in the dict and is there once, and every (pid, None) ever
\* put has a pid of 0..W-1 and was put once.
C32_RemovalNeverFails ==
    /\ spc # "raised"
    /\ workers \subseteq 0..(worker_count - 1)
    /\ \A i \in 1..Len(q_out) :
           q_out[i].event = None =>
               /\ q_out[i].pid \in workers
               /\ \A k \in 1..Len(q_out) : q_out[k] = q_out[i] => k = i
    /\ \A ev \in BagToSet(put_log) :
           ev.event = None =>
               /\ ev.pid \in 0..(worker_count - 1)
               /\ CopiesIn(ev, put_log) = 1

\* two workers, one of them having reported a failure, have both been
\* taken out of the dict
C32_Witness ==
    /\ spc = "returned"
    /\ worker_count = 2
    /\ workers = {}
    /\ \E ev \in BagToSet(put_log) : ev.event # None

\* C33: worker.join() never waits: every (pid, None) the supervisor can
\* take from the result queue was put by a thread that has since returned,
\* whatever the other threads are doing, and a worker is out of the dict
\* only after it put its (pid, None) and returned.
C33_JoinReturns ==
    /\ \A i \in 1..Len(q_out) :
           q_out[i].event = None => wpc[q_out[i].pid] = "done"
    /\ \A pid \in DOMAIN wpc :
           (spc \in {"drain", "returned"} /\ pid \notin workers) =>
               /\ wpc[pid] = "done"
               /\ BagIn([pid |-> pid, event |-> None], put_log)

\* the supervisor has joined one worker while another is still inside a
\* job's pipeline
C33_Witness ==
    /\ spc = "drain"
    /\ \E pid \in DOMAIN wpc \ workers :
           \E other \in workers :
               wpc[other] \in {"load", "check", "render", "write"}

\* a run that reads no document: empty standard input, without --suffixed
EmptyRun == Len(input) = 0 /\ ~(args.infile = << >> /\ args.suffixed)

\* what holds all along a run without documents
EmptyRunSafe ==
    /\ spc \notin {"exit", "raised"}
    /\ spc \notin {"read", "feed"} =>
           /\ worker_count >= 1
           /\ DOMAIN wpc = 0..(worker_count - 1)
    /\ \A pid \in DOMAIN wpc : wpc[pid] \in {"new", "get", "out", "done"}
    /\ \A it \in BagToSet(get_log) : it[2] = None
    /\ \A ev \in BagToSet(put_log) : ev.event = None
    /\ calls = {} /\ files = {} /\ stdout = {}
    /\ spc = "returned" =>
           /\ \A pid \in DOMAIN wpc :
                  /\ wpc[pid] = "done"
                  /\ CopiesIn(<<pid, None>>, get_log) = 1
           /\ DoneReceived = worker_count
           /\ q_in = << >> /\ q_out = << >>

StdinSuffixed == args.infile = << >> /\ args.suffixed

\* C35: with input from standard input and --suffixed, handle_create ends
\* by SystemExit (exit status 1) once it has read the input, before the
\* queues exist: no worker count is determined, nothing is put on or taken
\* from a queue, no thread is created, the backend is not called and
\* nothing is written or printed.
C35_StdinSuffixedAborts ==
    StdinSuffixed =>
        /\ spc \in {"read", "exit"}
        /\ spc = "exit" => ExitStatus = 1
        /\ worker_count = 0 /\ workers = {} /\ wpc = << >>
        /\ q_in = << >> /\ q_out = << >>
        /\ put_log = EmptyBag /\ get_log = EmptyBag
        /\ calls = {} /\ files = {} /\ stdout = {}

\* two documents were read from standard input and the run has exited
C35_Witness ==
    /\ StdinSuffixed
    /\ spc = "exit"
    /\ Len(sources) = 2

====
